---- MODULE Spec2Model ----
(***************************************************************************)
(* Retrieval pipeline of the GIKI prospectus Q&A chatbot: the pickle-backed *)
(* SimpleVectorStore (add / search / stats / reset / load-on-start), the    *)
(* RAGEngine ingestion and question paths around it, threads and sessions   *)
(* sharing a store, and the LLMManager's choice of backend.                 *)
(*                                                                          *)
(* Conventions.  A Python str is a sequence of one-character strings, so    *)
(* that len(), strip() and the regex clean-up are computed.  A Python dict  *)
(* is a TLA+ record; a key the dict lacks is a field outside its DOMAIN.    *)
(* A float that the code only ever compares or averages is kept as an exact *)
(* fraction <<numerator, denominator>> with a positive denominator; the     *)
(* vectors used all have an integer Euclidean norm, so every cosine the     *)
(* code computes is such a fraction.                                        *)
(***************************************************************************)
EXTENDS Integers, Sequences, FiniteSets, TLC

VARIABLES
    documents,   \* SimpleVectorStore.documents  (list of str)
    embeddings,  \* SimpleVectorStore.embeddings (list of vectors)
    metadata,    \* SimpleVectorStore.metadata   (list of dict)
    disk,        \* <persist_directory>/vector_store.pkl
    durable,     \* history: store content after the last add/reset that returned True
    ret,         \* the last call: its name, its arguments and what it returned
    running,     \* per thread: the store call it is inside, and how far it got
    peer,        \* the lists of a second SimpleVectorStore open on the same directory
    llm,         \* LLMManager: provider, current_llm, the backends that have a key
    config       \* Config, as read from the environment when the process started

vars == <<documents, embeddings, metadata, disk, durable, ret, running, peer, llm, config>>

----------------------------------------------------------------------------
(* Bounds of the model *)

\* add_documents is only called while the store has room for the batch
MaxDocs == 2
\* process_documents is only called while the store has room for the chunks
MaxStored == 3
\* largest top_k passed to search_similar
MaxTopK == 2
\* longest file_paths list passed to process_documents
MaxFiles == 2
\* longest page text handed to the chunker directly
MaxTextLen == 3
\* largest embedding_dim an EmbeddingManager is constructed with
MaxDim == 3
\* longest list of pages, texts or chunks handed to the chunker or the embedder
MaxItems == 2

----------------------------------------------------------------------------
(* Generic helpers *)

\* dict.get(key, default)
DictGet(d, key, default) == IF key \in DOMAIN d THEN d[key] ELSE default

\* seq[:n] for n >= 0
Take(seq, n) == SubSeq(seq, 1, IF n < Len(seq) THEN n ELSE Len(seq))

IsPrefix(s, t) == Len(s) <= Len(t) /\ SubSeq(t, 1, Len(s)) = s

RECURSIVE SumSeq(_)
SumSeq(s) == IF s = <<>> THEN 0 ELSE Head(s) + SumSeq(Tail(s))

\* exact fractions <<n, d>>, d > 0
RatLT(a, b) == a[1] * b[2] < b[1] * a[2]
RatEQ(a, b) == a[1] * b[2] = b[1] * a[2]

----------------------------------------------------------------------------
(* SimpleVectorStore *)

\* __init__ lines 24-26: the three parallel in-memory lists
EmptyStore == [documents |-> <<>>, embeddings |-> <<>>, metadata |-> <<>>]

Store == [documents |-> documents, embeddings |-> embeddings, metadata |-> metadata]

\* no vector_store.pkl in the persist directory
NoFile == [status |-> "absent", data |-> EmptyStore]

\* what the environment lets _save_data do: the write succeeds, open() raises
\* (file untouched), or pickle.dump raises after open(..., 'wb') truncated the file
SaveOutcomes == {"ok", "open_fail", "dump_fail"}

\* _save_data: every exception is caught and logged, nothing is returned
save_data(st, dsk, outcome) ==
    CASE outcome = "ok" ->
            [status |-> "valid",
             data   |-> [documents  |-> st.documents,
                         embeddings |-> st.embeddings,
                         metadata   |-> st.metadata]]
      [] outcome = "open_fail" -> dsk
      [] OTHER -> [status |-> "corrupt", data |-> EmptyStore]

\* _load_data on the freshly constructed (empty) lists; an unreadable pickle is
\* logged and the lists stay empty
load_data(dsk) ==
    IF dsk.status = "valid"
    THEN [documents  |-> DictGet(dsk.data, "documents", <<>>),
          embeddings |-> DictGet(dsk.data, "embeddings", <<>>),
          metadata   |-> DictGet(dsk.data, "metadata", <<>>)]
    ELSE EmptyStore

\* append_chunk with the entry put in front of the stored ones
append_chunk_at_front(st, chunk) ==
    IF {"content", "embedding", "metadata"} \subseteq DOMAIN chunk
    THEN [store  |-> [documents  |-> <<chunk.content>> \o st.documents,
                      embeddings |-> <<chunk.embedding>> \o st.embeddings,
                      metadata   |-> <<chunk.metadata>> \o st.metadata],
          raised |-> FALSE]
    ELSE [store |-> st, raised |-> TRUE]

\* append_chunk that skips a chunk whose content is already stored
append_chunk_dedup(st, chunk) ==
    IF {"content", "embedding", "metadata"} \subseteq DOMAIN chunk
    THEN IF \E i \in 1..Len(st.documents) : st.documents[i] = chunk.content
         THEN [store |-> st, raised |-> FALSE]
         ELSE [store  |-> [documents  |-> Append(st.documents, chunk.content),
                           embeddings |-> Append(st.embeddings, chunk.embedding),
                           metadata   |-> Append(st.metadata, chunk.metadata)],
               raised |-> FALSE]
    ELSE [store |-> st, raised |-> TRUE]

\* one iteration of the loop of add_documents (lines 66-68): three appends, each
\* preceded by a dict lookup that raises KeyError when the key is missing
append_chunk(st, chunk) ==
    IF "content" \notin DOMAIN chunk
    THEN [store |-> st, raised |-> TRUE]
    ELSE LET s1 == [st EXCEPT !.documents = Append(@, chunk.content)] IN
         IF "embedding" \notin DOMAIN chunk
         THEN [store |-> s1, raised |-> TRUE]
         ELSE LET s2 == [s1 EXCEPT !.embeddings = Append(@, chunk.embedding)] IN
              IF "metadata" \notin DOMAIN chunk
              THEN [store |-> s2, raised |-> TRUE]
              ELSE [store  |-> [s2 EXCEPT !.metadata = Append(@, chunk.metadata)],
                    raised |-> FALSE]

\* the loop of add_documents (line 65), left at the first exception
RECURSIVE append_chunks(_, _)
append_chunks(st, encoded_chunks) ==
    IF encoded_chunks = <<>>
    THEN [store |-> st, raised |-> FALSE]
    ELSE LET one == append_chunk(st, Head(encoded_chunks)) IN
         IF one.raised THEN one
         ELSE append_chunks(one.store, Tail(encoded_chunks))

\* add_documents: loop, then _save_data, then True; an exception in the loop
\* skips the save and returns False, leaving whatever was appended
add_documents(st, dsk, encoded_chunks, outcome) ==
    LET looped == append_chunks(st, encoded_chunks) IN
    IF looped.raised
    THEN [store |-> looped.store, disk |-> dsk, ok |-> FALSE]
    ELSE [store |-> looped.store,
          disk  |-> save_data(looped.store, dsk, outcome),
          ok    |-> TRUE]

\* delete_collection that forgets the metadata list
delete_collection_keeps_metadata(st, dsk, outcome) ==
    LET cleared == [st EXCEPT !.documents = <<>>, !.embeddings = <<>>] IN
    [store |-> cleared, disk |-> save_data(cleared, dsk, outcome), ok |-> TRUE]

\* delete_collection (reset_collection delegates to it)
delete_collection(st, dsk, outcome) ==
    [store |-> EmptyStore, disk |-> save_data(EmptyStore, dsk, outcome), ok |-> TRUE]

Dot(v, w) == SumSeq([i \in 1..Len(v) |-> v[i] * w[i]])

\* np.linalg.norm on a vector whose norm is an integer
Norm(v) == LET s == Dot(v, v) IN CHOOSE n \in 0..s : n * n = s

\* float64 arithmetic on the model's integers: a sum of products beyond
\* float_max is inf, as np.dot and np.linalg.norm give for components near
\* 1e200, and inf / inf is nan.  inf is the integer after float_max, nan the
\* fraction 0/0.
float_max == 10000
Inf == float_max + 1
NaN == <<0, 0>>

\* np.dot(vec1, vec2)
np_dot(vec1, vec2) ==
    IF Dot(vec1, vec2) > float_max THEN Inf
    ELSE IF Dot(vec1, vec2) < 0 - float_max THEN 0 - Inf
    ELSE Dot(vec1, vec2)

\* np.linalg.norm(vec): sqrt(dot(vec, vec))
np_norm(vec) == IF Dot(vec, vec) > float_max THEN Inf ELSE Norm(vec)

\* norm1 * norm2
np_mul(norm1, norm2) ==
    IF norm1 = Inf \/ norm2 = Inf THEN Inf
    ELSE IF norm1 * norm2 > float_max THEN Inf
    ELSE norm1 * norm2

\* dot_product / denominator for a denominator that is not 0; a finite
\* denominator bounds the dot product (Cauchy-Schwarz), so the quotient is exact
np_div(dot_product, denominator) ==
    IF denominator = Inf
    THEN IF dot_product \in {Inf, 0 - Inf} THEN NaN ELSE <<0, 1>>
    ELSE <<dot_product, denominator>>

\* _cosine_similarity: 0.0 for a zero norm, and 0.0 when np.dot raises on
\* vectors of different length
cosine_similarity(vec1, vec2) ==
    IF Len(vec1) # Len(vec2) THEN <<0, 1>>
    ELSE IF np_norm(vec1) = 0 \/ np_norm(vec2) = 0 THEN <<0, 1>>
    ELSE np_div(np_dot(vec1, vec2), np_mul(np_norm(vec1), np_norm(vec2)))

\* Python's tuple order on (similarity, i)
TupleGT(a, b) == RatLT(b[1], a[1]) \/ (RatEQ(a[1], b[1]) /\ a[2] > b[2])

\* similarities.sort(reverse=True): the tuples are pairwise different (their i
\* differ), so the descending order is unique
sort_reverse(sims) ==
    LET n == Len(sims)
        rank(k) == 1 + Cardinality({j \in 1..n : TupleGT(sims[j], sims[k])})
    IN [p \in 1..n |-> sims[CHOOSE k \in 1..n : rank(k) = p]]

\* lines 89-95 and the slice of line 99: (similarity, i) per stored embedding,
\* i counted from 0, sorted, cut to top_k
similarities_top(st, query_embedding, top_k) ==
    Take(sort_reverse([i \in 1..Len(st.embeddings) |->
                          <<cosine_similarity(query_embedding, st.embeddings[i]), i - 1>>]),
         top_k)

\* search_similar: [] for an empty embeddings list, and [] when building a
\* result raises (an index beyond documents or metadata)
search_similar(st, query_embedding, top_k) ==
    IF st.embeddings = <<>> THEN <<>>
    ELSE LET top == similarities_top(st, query_embedding, top_k) IN
         IF \E p \in 1..Len(top) :
               top[p][2] + 1 > Len(st.documents) \/ top[p][2] + 1 > Len(st.metadata)
         THEN <<>>
         ELSE [p \in 1..Len(top) |->
                 [content          |-> st.documents[top[p][2] + 1],
                  metadata         |-> st.metadata[top[p][2] + 1],
                  similarity_score |-> top[p][1]]]

\* get_collection_stats (file_names is list(set): kept as the set)
get_collection_stats(st) ==
    LET unique_files == {DictGet(st.metadata[i], "file_name", "Unknown") :
                            i \in 1..Len(st.metadata)}
    IN [total_documents |-> Len(st.documents),
        unique_files    |-> Cardinality(unique_files),
        file_names      |-> unique_files,
        status          |-> IF st.documents # <<>> THEN "active" ELSE "empty"]

----------------------------------------------------------------------------
(* DocumentProcessor *)

Whitespace == {" ", "\n"}
\* what clean_text's character class keeps, among the characters of the model
Allowed == {"a", "b", " ", "\n"}

RECURSIVE lstrip(_)
lstrip(text) ==
    IF text # <<>> /\ Head(text) \in Whitespace THEN lstrip(Tail(text)) ELSE text

RECURSIVE rstrip(_)
rstrip(text) ==
    IF text # <<>> /\ text[Len(text)] \in Whitespace
    THEN rstrip(SubSeq(text, 1, Len(text) - 1))
    ELSE text

\* str.strip()
strip(text) == rstrip(lstrip(text))

\* re.sub(r'\s+', ' ', text)
RECURSIVE collapse_whitespace(_)
collapse_whitespace(text) ==
    IF text = <<>> THEN <<>>
    ELSE IF Head(text) \in Whitespace
         THEN <<" ">> \o collapse_whitespace(lstrip(text))
         ELSE <<Head(text)>> \o collapse_whitespace(Tail(text))

\* clean_text: collapse whitespace, drop the characters outside the class,
\* turn line breaks into spaces, strip
clean_text(text) ==
    LET collapsed == collapse_whitespace(text)
        kept      == SelectSeq(collapsed, LAMBDA c : c \in Allowed)
        unbroken  == [i \in 1..Len(kept) |-> IF kept[i] = "\n" THEN " " ELSE kept[i]]
    IN strip(unbroken)

\* os.path.basename of a path kept as <<directory, base name>>
basename(file_path) == file_path[2]

\* Config.ALLOWED_EXTENSIONS
allowed_extensions == {".pdf", ".docx", ".txt", ".doc"}
\* Config.MAX_FILE_SIZE, in MB
max_file_size == 100

PathA     == <<"data", "a.txt">>
PathB     == <<"data", "b.pdf">>
PathOther == <<"other", "a.txt">>
PathDoc   == <<"data", "c.doc">>
PathBad   == <<"data", "bad.pdf">>

FilePaths == {PathA, PathB, PathOther, PathDoc, PathBad}

\* the files on disk: suffix, size in MB, whether the parser can open the file,
\* and the raw text of each physical page
FileSystem(file_path) ==
    CASE file_path = PathA ->
            [suffix |-> ".txt", size |-> 1, readable |-> TRUE,
             raw_pages |-> << <<"a", "\n">> >>]
      [] file_path = PathB ->
            [suffix |-> ".pdf", size |-> 2, readable |-> TRUE,
             raw_pages |-> << <<" ", "\n">>, <<"a", "\n", "b", "#", " ", "a", " ">> >>]
      [] file_path = PathOther ->
            [suffix |-> ".txt", size |-> 1, readable |-> TRUE,
             raw_pages |-> << <<" ", "b">> >>]
      [] file_path = PathDoc ->
            [suffix |-> ".doc", size |-> 1, readable |-> TRUE,
             raw_pages |-> << <<"a">> >>]
      [] OTHER ->
            [suffix |-> ".pdf", size |-> 1, readable |-> FALSE,
             raw_pages |-> <<>>]

\* the file_paths lists passed to process_documents: good files alone and
\* together, a file that fails before and after a good one
FilePathLists ==
    {fp \in UNION {[1..n -> FilePaths] : n \in 1..MaxFiles} :
        \/ Len(fp) = 1
        \/ fp \in { <<PathA, PathB>>, <<PathA, PathOther>>, <<PathA, PathBad>>,
                    <<PathBad, PathA>>, <<PathB, PathDoc>> }
        \/ Len(fp) > 2 /\ \A i \in 1..Len(fp) : fp[i] = PathA}

\* validate_file: extension and size
validate_file(file_path) ==
    /\ FileSystem(file_path).suffix \in allowed_extensions
    /\ FileSystem(file_path).size <= max_file_size

\* extract_text_from_pdf: one record per non-empty page, numbered from 1 by
\* physical position; extract_text_from_txt is the one-page case
RECURSIVE extract_pages(_, _, _)
extract_pages(file_path, raw_pages, page_num) ==
    IF raw_pages = <<>> THEN <<>>
    ELSE LET text == Head(raw_pages)
             rest == extract_pages(file_path, Tail(raw_pages), page_num + 1)
         IN IF strip(text) # <<>>
            THEN <<[page_number |-> page_num + 1,
                    text        |-> strip(text),
                    file_name   |-> basename(file_path)]>> \o rest
            ELSE rest

\* process_document: ValueError for an invalid file or a suffix without an
\* extractor, the extractor's own exception for a file it cannot open
process_document(file_path) ==
    LET file == FileSystem(file_path) IN
    IF ~validate_file(file_path)
    THEN [raised |-> TRUE, error |-> "File is not valid", pages |-> <<>>]
    ELSE IF file.suffix \notin {".pdf", ".docx", ".txt"}
    THEN [raised |-> TRUE, error |-> "Unsupported file type", pages |-> <<>>]
    ELSE IF ~file.readable
    THEN [raised |-> TRUE, error |-> "Cannot open file", pages |-> <<>>]
    ELSE [raised |-> FALSE, error |-> "",
          pages |-> extract_pages(file_path, file.raw_pages, 0)]

\* process_multiple_documents that logs a failing file and goes on to the next
RECURSIVE process_multiple_documents_skip(_)
process_multiple_documents_skip(file_paths) ==
    IF file_paths = <<>> THEN [raised |-> FALSE, error |-> "", pages |-> <<>>]
    ELSE LET one  == process_document(Head(file_paths))
             rest == process_multiple_documents_skip(Tail(file_paths))
         IN IF one.raised THEN rest
            ELSE [raised |-> FALSE, error |-> "",
                  pages  |-> [i \in 1..Len(one.pages) |->
                                [one.pages[i] EXCEPT !.text = clean_text(@)]] \o rest.pages]

\* process_multiple_documents: the first failing file re-raises
RECURSIVE process_multiple_documents(_)
process_multiple_documents(file_paths) ==
    IF file_paths = <<>> THEN [raised |-> FALSE, error |-> "", pages |-> <<>>]
    ELSE LET one == process_document(Head(file_paths)) IN
         IF one.raised THEN one
         ELSE LET cleaned == [i \in 1..Len(one.pages) |->
                                [one.pages[i] EXCEPT !.text = clean_text(@)]]
                  rest    == process_multiple_documents(Tail(file_paths))
              IN IF rest.raised THEN rest
                 ELSE [raised |-> FALSE, error |-> "", pages |-> cleaned \o rest.pages]

----------------------------------------------------------------------------
(* TextChunker *)

\* Config.CHUNK_SIZE and Config.CHUNK_OVERLAP, in tokens
chunk_size == 2
chunk_overlap == 1

\* TextChunker(): chunk_size and chunk_overlap taken from Config
DefaultChunker == [chunk_size |-> chunk_size, chunk_overlap |-> chunk_overlap]

\* the chunkers a deployment can construct: the default one, and the one of
\* CHUNK_SIZE=1, CHUNK_OVERLAP=0 (one token per chunk)
Chunkers == {DefaultChunker, [chunk_size |-> 1, chunk_overlap |-> 0]}

\* the separators handed to RecursiveCharacterTextSplitter
separators == << <<"\n", "\n">>, <<"\n">>, <<".", " ">>, <<"!", " ">>, <<"?", " ">>,
                 <<" ">>, <<>> >>

\* _count_tokens: a word with the one space before it is a token; whitespace
\* that no word takes with it is a token per run
count_tokens(text) ==
    LET n        == Len(text)
        ws(i)    == text[i] \in Whitespace
        words    == {i \in 1..n : ~ws(i) /\ (i = 1 \/ ws(i - 1))}
        run_ends == {i \in 1..n : ws(i) /\ (i = n \/ ~ws(i + 1))}
        own(i)   == \/ i = n
                    \/ text[i] # " "
                    \/ i > 1 /\ ws(i - 1)
    IN Cardinality(words) + Cardinality({i \in run_ends : own(i)})

\* separator in text
Contains(text, separator) ==
    \E i \in 1..(Len(text) - Len(separator) + 1) :
        SubSeq(text, i, i + Len(separator) - 1) = separator

\* the places where re.split finds the separator, left to right without overlap
RECURSIVE Occurrences(_, _, _)
Occurrences(text, separator, from) ==
    IF from + Len(separator) - 1 > Len(text) THEN <<>>
    ELSE IF SubSeq(text, from, from + Len(separator) - 1) = separator
         THEN <<from>> \o Occurrences(text, separator, from + Len(separator))
         ELSE Occurrences(text, separator, from + 1)

\* the splitter's split with keep_separator: each piece after the first starts
\* with the separator, empty pieces are left out; the empty separator splits
\* into characters
split_with_separator(text, separator) ==
    IF separator = <<>> THEN [i \in 1..Len(text) |-> <<text[i]>>]
    ELSE LET occ    == Occurrences(text, separator, 1)
             start(j) == IF j = 0 THEN 1 ELSE occ[j]
             stop(j)  == IF j = Len(occ) THEN Len(text) ELSE occ[j + 1] - 1
             pieces == [j \in 1..(Len(occ) + 1) |-> SubSeq(text, start(j - 1), stop(j - 1))]
         IN SelectSeq(pieces, LAMBDA piece : piece # <<>>)

\* ''.join(docs)
RECURSIVE Concat(_)
Concat(docs) == IF docs = <<>> THEN <<>> ELSE Head(docs) \o Concat(Tail(docs))

\* the splitter's _join_docs: the joined pieces stripped, nothing when that is empty
join_docs(current_doc) ==
    IF strip(Concat(current_doc)) = <<>> THEN <<>> ELSE <<strip(Concat(current_doc))>>

\* the while loop of _merge_splits: pieces leave the front of current_doc until
\* the overlap and the next piece fit
RECURSIVE drop_front(_, _, _, _)
drop_front(chunker, current_doc, total, len) ==
    IF \/ total > chunker.chunk_overlap
       \/ (total + len > chunker.chunk_size /\ total > 0)
    THEN drop_front(chunker, Tail(current_doc),
                    total - count_tokens(Head(current_doc)), len)
    ELSE [current_doc |-> current_doc, total |-> total]

\* the splitter's _merge_splits with the empty join separator: pieces gathered
\* up to chunk_size tokens, each chunk starting with the overlap of the last
RECURSIVE merge_splits(_, _, _, _, _)
merge_splits(chunker, splits, current_doc, total, docs) ==
    IF splits = <<>> THEN docs \o join_docs(current_doc)
    ELSE LET d   == Head(splits)
             len == count_tokens(d)
         IN IF total + len > chunker.chunk_size /\ current_doc # <<>>
            THEN LET kept == drop_front(chunker, current_doc, total, len)
                 IN merge_splits(chunker, Tail(splits), Append(kept.current_doc, d),
                                 kept.total + len, docs \o join_docs(current_doc))
            ELSE merge_splits(chunker, Tail(splits), Append(current_doc, d),
                              total + len, docs)

RECURSIVE recursive_split(_, _, _)
RECURSIVE split_pieces(_, _, _, _, _)

\* the loop of the splitter's _split_text over the pieces: pieces under
\* chunk_size are gathered and merged; a piece of chunk_size or more is split
\* by the next separators, or taken as it is when none is left
split_pieces(chunker, splits, good_splits, new_separators, final_chunks) ==
    LET merged == IF good_splits = <<>> THEN <<>>
                  ELSE merge_splits(chunker, good_splits, <<>>, 0, <<>>)
    IN IF splits = <<>> THEN final_chunks \o merged
       ELSE LET s == Head(splits) IN
            IF count_tokens(s) < chunker.chunk_size
            THEN split_pieces(chunker, Tail(splits), Append(good_splits, s),
                              new_separators, final_chunks)
            ELSE split_pieces(chunker, Tail(splits), <<>>, new_separators,
                              final_chunks \o merged \o
                                (IF new_separators = <<>> THEN <<s>>
                                 ELSE recursive_split(chunker, s, new_separators)))

\* the splitter's _split_text: the first separator found in the text splits it
recursive_split(chunker, text, seps) ==
    LET found == {i \in 1..Len(seps) : seps[i] = <<>> \/ Contains(text, seps[i])}
        first == IF found = {} THEN Len(seps)
                 ELSE CHOOSE i \in found : \A j \in found : i <= j
        new_separators == IF found = {} \/ seps[first] = <<>> THEN <<>>
                          ELSE SubSeq(seps, first + 1, Len(seps))
    IN split_pieces(chunker, split_with_separator(text, seps[first]), <<>>,
                    new_separators, <<>>)

\* text_splitter.split_text
split_text(chunker, text) == recursive_split(chunker, text, separators)

\* lines 52-62: the chunk built from segment i (counted from 0 by enumerate)
make_chunk(chunker, page, page_chunks, i) ==
    [content  |-> strip(page_chunks[i + 1]),
     metadata |-> [file_name    |-> page.file_name,
                   page_number  |-> page.page_number,
                   chunk_index  |-> i,
                   total_chunks |-> Len(page_chunks),
                   chunk_size   |-> Len(page_chunks[i + 1]),
                   token_count  |-> count_tokens(page_chunks[i + 1])]]

\* lines 50-63: the inner loop from segment i on; a segment that is empty after
\* strip() is skipped, a page dict without 'file_name' or 'page_number' raises
\* KeyError when the first chunk is built
RECURSIVE append_page_chunks(_, _, _, _, _)
append_page_chunks(chunker, page, page_chunks, i, chunks) ==
    IF i >= Len(page_chunks) THEN [chunks |-> chunks, raised |-> FALSE]
    ELSE IF strip(page_chunks[i + 1]) = <<>>
    THEN append_page_chunks(chunker, page, page_chunks, i + 1, chunks)
    ELSE IF ~({"file_name", "page_number"} \subseteq DOMAIN page)
    THEN [chunks |-> chunks, raised |-> TRUE]
    ELSE append_page_chunks(chunker, page, page_chunks, i + 1,
                            Append(chunks, make_chunk(chunker, page, page_chunks, i)))

\* chunk_page that puts the chunks of a page in front of those of the pages
\* before it
chunk_page_in_front(chunker, page, chunks) ==
    IF "text" \notin DOMAIN page THEN [chunks |-> chunks, raised |-> TRUE]
    ELSE LET looped == append_page_chunks(chunker, page,
                                          split_text(chunker, page.text), 0, <<>>)
         IN [chunks |-> looped.chunks \o chunks, raised |-> looped.raised]

\* lines 45-65, the try body for one page: split_text raises on a page without
\* 'text', the log line of 65 reads 'page_number' and 'file_name'
chunk_page(chunker, page, chunks) ==
    IF "text" \notin DOMAIN page THEN [chunks |-> chunks, raised |-> TRUE]
    ELSE LET looped == append_page_chunks(chunker, page,
                                          split_text(chunker, page.text), 0, chunks)
         IN IF looped.raised THEN looped
            ELSE [chunks |-> looped.chunks,
                  raised |-> ~({"file_name", "page_number"} \subseteq DOMAIN page)]

\* chunk_document_pages that gives up at the first page it cannot chunk
RECURSIVE chunk_pages_abort(_, _, _)
chunk_pages_abort(chunker, pages, chunks) ==
    IF pages = <<>> THEN chunks
    ELSE LET one == chunk_page(chunker, Head(pages), chunks) IN
         IF one.raised THEN one.chunks
         ELSE chunk_pages_abort(chunker, Tail(pages), one.chunks)

\* lines 44-69: the loop over the pages; the except branch logs and continues
\* with what the list holds
RECURSIVE chunk_pages(_, _, _)
chunk_pages(chunker, pages, chunks) ==
    IF pages = <<>> THEN chunks
    ELSE chunk_pages(chunker, Tail(pages), chunk_page(chunker, Head(pages), chunks).chunks)

\* chunk_document_pages
chunk_document_pages(chunker, pages) == chunk_pages(chunker, pages, <<>>)

----------------------------------------------------------------------------
(* SimpleEmbeddingManager *)

\* SimpleEmbeddingManager.__init__: embedding_dim
embedding_dim == 2

HexDigits == <<"0", "1", "2", "3", "4", "5", "6", "7", "8", "9",
               "a", "b", "c", "d", "e", "f">>

\* ord() of a hexadecimal digit
Ord(c) ==
    LET k == CHOOSE i \in 1..16 : HexDigits[i] = c
    IN IF k <= 10 THEN 47 + k ELSE 86 + k

\* hashlib.md5(text).hexdigest(), shortened to two digits: a fixed function of
\* the text into digit strings
md5_hexdigest(text) ==
    IF Len(SelectSeq(text, LAMBDA c : c = "a")) >= Len(SelectSeq(text, LAMBDA c : c = "b"))
    THEN <<"0", "7">> ELSE <<"7", "0">>

\* _text_to_hash_vector of an instance constructed with embedding_dim = dim,
\* components in units of 1/255: the digits' codes first, as far as dim
\* reaches, the remaining dimensions filled with (ord(hash[i % len]) + i) % 255
text_to_hash_vector_of(dim, text) ==
    LET text_hash == md5_hexdigest(text) IN
    [k \in 1..dim |->
        IF k <= Len(text_hash) THEN Ord(text_hash[k])
        ELSE (Ord(text_hash[((k - 1) % Len(text_hash)) + 1]) + (k - 1)) % 255]

\* _text_to_hash_vector of the engine's embedder
text_to_hash_vector(text) == text_to_hash_vector_of(embedding_dim, text)

\* a character that str.encode('utf-8') rejects (a lone surrogate): with it
\* text.encode raises UnicodeEncodeError inside _text_to_hash_vector
LoneSurrogate == "U+D800"

utf8_encodable(text) == \A i \in 1..Len(text) : text[i] # LoneSurrogate

\* np.zeros(self.embedding_dim)
zeros_of(dim) == [k \in 1..dim |-> 0]
zeros == zeros_of(embedding_dim)

\* get_single_embedding that returns an empty array
get_single_embedding_empty(text) == <<>>

\* get_embeddings that leaves out the texts it could not embed
get_embeddings_skip_failed(texts) ==
    LET embeddable == SelectSeq(texts, utf8_encodable)
    IN [i \in 1..Len(embeddable) |-> text_to_hash_vector(embeddable[i])]

\* get_single_embedding that returns one component per digit of the digest,
\* whatever the instance's dimension
get_single_embedding_of_digest(dim, text) ==
    IF utf8_encodable(text)
    THEN [k \in 1..Len(md5_hexdigest(text)) |-> Ord(md5_hexdigest(text)[k])]
    ELSE zeros_of(dim)

\* get_single_embedding of an instance constructed with embedding_dim = dim:
\* the hash vector, the zero vector on any exception
get_single_embedding_of(dim, text) ==
    IF utf8_encodable(text) THEN text_to_hash_vector_of(dim, text) ELSE zeros_of(dim)

\* get_embedding_dimension of an instance constructed with embedding_dim = dim
get_embedding_dimension(dim) == dim

\* get_single_embedding of the engine's embedder
get_single_embedding(text) == get_single_embedding_of(embedding_dim, text)

\* get_embeddings: the list comprehension over get_single_embedding, which
\* does not raise
get_embeddings(texts) == [i \in 1..Len(texts) |-> get_single_embedding(texts[i])]

\* compute_similarity: 0.0 for a zero norm, and 0.0 when np.dot raises on
\* vectors of different length
compute_similarity(embedding1, embedding2) ==
    IF Len(embedding1) # Len(embedding2) THEN <<0, 1>>
    ELSE IF np_norm(embedding1) = 0 \/ np_norm(embedding2) = 0 THEN <<0, 1>>
    ELSE np_div(np_dot(embedding1, embedding2),
                np_mul(np_norm(embedding1), np_norm(embedding2)))

\* batch_encode_with_metadata that returns from inside its loop, after the
\* first chunk
batch_encode_with_metadata_first(chunks) ==
    [i \in 1..(IF chunks = <<>> THEN 0 ELSE 1) |->
        [content   |-> DictGet(chunks[i], "content", <<>>),
         embedding |-> get_single_embedding(DictGet(chunks[i], "content", <<>>)),
         metadata  |-> DictGet(chunks[i], "metadata", <<>>)]]

\* batch_encode_with_metadata: chunk.get supplies '' and {} for a missing key
batch_encode_with_metadata(chunks) ==
    [i \in 1..Len(chunks) |->
        [content   |-> DictGet(chunks[i], "content", <<>>),
         embedding |-> get_single_embedding(DictGet(chunks[i], "content", <<>>)),
         metadata  |-> DictGet(chunks[i], "metadata", <<>>)]]

----------------------------------------------------------------------------
(* LLMManager *)

\* the backends, in the order get_available_providers asks them
Backends == <<"openai", "anthropic", "openrouter">>

\* the provider names a caller can pass: the three backends and an unknown one
ProviderNames == {"openai", "anthropic", "openrouter", "gemini"}

\* <backend>_llm.is_available(): the backend's API key is configured
is_available(keys, backend) == backend \in keys

\* _select_llm: the requested backend if it has a key, else the first of
\* openrouter, openai, anthropic that has one, else ValueError
select_llm(keys, provider) ==
    IF provider = "openrouter" /\ is_available(keys, "openrouter") THEN "openrouter"
    ELSE IF provider = "openai" /\ is_available(keys, "openai") THEN "openai"
    ELSE IF provider = "anthropic" /\ is_available(keys, "anthropic") THEN "anthropic"
    ELSE IF is_available(keys, "openrouter") THEN "openrouter"
    ELSE IF is_available(keys, "openai") THEN "openai"
    ELSE IF is_available(keys, "anthropic") THEN "anthropic"
    ELSE "ValueError"

\* LLMManager.__init__(provider): provider is stored as given, current_llm is
\* what _select_llm returns
LLMManager(keys, provider) ==
    [provider |-> provider, current_llm |-> select_llm(keys, provider), keys |-> keys]

\* get_available_providers
get_available_providers(manager) ==
    SelectSeq(Backends, LAMBDA backend : is_available(manager.keys, backend))

\* switch_provider: both fields are set together, or ValueError is raised
\* before either is touched
switch_provider(manager, provider) ==
    IF provider \in {"openai", "anthropic", "openrouter"} /\ is_available(manager.keys, provider)
    THEN [manager |-> [manager EXCEPT !.current_llm = provider, !.provider = provider],
          raised  |-> FALSE]
    ELSE [manager |-> manager, raised |-> TRUE]

\* the manager RAGEngine.__init__ constructs, LLMManager(), where only the
\* OpenRouter key is configured
DefaultManager == LLMManager({"openrouter"}, "openrouter")

----------------------------------------------------------------------------
(* RAGEngine *)

\* the dict process_documents returns from its except branch
IngestFailure(error) ==
    [success |-> FALSE, error |-> error, files_processed |-> 0, pages_extracted |-> 0,
     chunks_created |-> 0, chunks_stored |-> 0]

\* steps 1-3 of process_documents (lines 37-47): extract, chunk, embed
stage(file_paths) ==
    LET extracted == process_multiple_documents(file_paths) IN
    IF extracted.raised
    THEN [raised |-> TRUE, error |-> extracted.error,
          pages |-> <<>>, chunks |-> <<>>, encoded_chunks |-> <<>>]
    ELSE LET chunks == chunk_document_pages(DefaultChunker, extracted.pages) IN
         [raised |-> FALSE, error |-> "",
          pages |-> extracted.pages, chunks |-> chunks,
          encoded_chunks |-> batch_encode_with_metadata(chunks)]

\* steps 1-3 read nothing of the store: their outcome, per input list
Staged == [file_paths \in FilePathLists |-> stage(file_paths)]

\* process_documents that stores each file's chunks as soon as the file is read,
\* so the files before a failing one are in the store when the call fails
process_documents_per_file(st, dsk, file_paths, outcome) ==
    LET failing == {i \in 1..Len(file_paths) : process_document(file_paths[i]).raised}
        first   == IF failing = {} THEN Len(file_paths) + 1
                   ELSE CHOOSE i \in failing : \A j \in failing : i <= j
        staged  == stage(SubSeq(file_paths, 1, first - 1))
        add     == add_documents(st, dsk, staged.encoded_chunks, outcome)
    IN IF failing # {}
       THEN [store |-> add.store, disk |-> add.disk, added |-> add.ok,
             result |-> IngestFailure(process_document(file_paths[first]).error)]
       ELSE [store |-> add.store, disk |-> add.disk, added |-> add.ok,
             result |-> [success            |-> TRUE,
                         files_processed    |-> Len(file_paths),
                         pages_extracted    |-> Len(staged.pages),
                         chunks_created     |-> Len(staged.chunks),
                         chunks_stored      |-> Len(staged.encoded_chunks),
                         vector_store_stats |-> get_collection_stats(add.store)]]

\* process_documents: steps 1-3, then add_documents; any exception, and a False
\* from add_documents, ends in the except branch
process_documents(st, dsk, file_paths, outcome) ==
    LET staged == Staged[file_paths] IN
    IF staged.raised
    THEN [store |-> st, disk |-> dsk, added |-> FALSE,
          result |-> IngestFailure(staged.error)]
    ELSE LET add == add_documents(st, dsk, staged.encoded_chunks, outcome) IN
         IF ~add.ok
         THEN [store |-> add.store, disk |-> add.disk, added |-> FALSE,
               result |-> IngestFailure("Failed to add documents to vector store")]
         ELSE [store |-> add.store, disk |-> add.disk, added |-> TRUE,
               result |-> [success            |-> TRUE,
                           files_processed    |-> Len(file_paths),
                           pages_extracted    |-> Len(staged.pages),
                           chunks_created     |-> Len(staged.chunks),
                           chunks_stored      |-> Len(staged.encoded_chunks),
                           vector_store_stats |-> get_collection_stats(add.store)]]

RECURSIVE GCD(_, _)
GCD(a, b) == IF b = 0 THEN a ELSE GCD(b, a % b)

\* a fraction in lowest terms (the same number)
Reduce(a) ==
    LET g == GCD(IF a[1] < 0 THEN -a[1] ELSE a[1], a[2])
    IN <<a[1] \div g, a[2] \div g>>

\* sum() over floats kept as fractions
RatAdd(a, b) == Reduce(<<a[1] * b[2] + b[1] * a[2], a[2] * b[2]>>)

RECURSIVE RatSum(_)
RatSum(s) == IF s = <<>> THEN <<0, 1>> ELSE RatAdd(Head(s), RatSum(Tail(s)))

\* separator.join(parts)
RECURSIVE JoinWith(_, _)
JoinWith(separator, parts) ==
    IF parts = <<>> THEN <<>>
    ELSE IF Len(parts) = 1 THEN Head(parts)
    ELSE Head(parts) \o separator \o JoinWith(separator, Tail(parts))

\* the default top_k of search_similar, which ask_question does not override
default_top_k == 3

\* what the selected provider does with one generate_response call: it returns
\* a text, or it raises (no key, HTTP error, time-out); LLMManager passes both on
GeneratorOutcomes == {"answer", "raise"}

\* LLMManager.generate_response: one call of current_llm.generate_response
generate_response(prompt, context, language, outcome) ==
    IF outcome = "raise"
    THEN [raised |-> TRUE, error |-> "OpenRouter API error", answer |-> <<>>]
    ELSE [raised |-> FALSE, error |-> "",
          answer |-> [generated_for |-> prompt, from_context |-> context,
                      language |-> language]]

\* the answers ask_question returns without a generated text
InsufficientAnswer == "I don't have enough information from the uploaded documents to answer this question. Please make sure relevant GIKI documents are uploaded."
FallbackAnswer == "Sorry, I encountered an error while processing your question. Please try again."

\* AskFailure that hands the exception text to the user as the answer
AskFailure_error_as_answer(error) ==
    [success |-> FALSE, error |-> error, answer |-> error,
     sources |-> <<>>, confidence |-> <<0, 1>>]

\* make_sources listing the weakest result first
make_sources_reversed(search_results) ==
    [i \in 1..Len(search_results) |->
        LET result == search_results[Len(search_results) + 1 - i] IN
        [file_name        |-> DictGet(result.metadata, "file_name", "Unknown"),
         page_number      |-> DictGet(result.metadata, "page_number", "Unknown"),
         similarity_score |-> result.similarity_score]]

\* avg_confidence that reports the best score
avg_confidence_best(search_results) == search_results[1].similarity_score

\* the dict ask_question returns from its except branch
AskFailure(error) ==
    [success |-> FALSE, error |-> error, answer |-> FallbackAnswer,
     sources |-> <<>>, confidence |-> <<0, 1>>]

\* lines 112-118: one source per search result, in the order of the results
make_sources(search_results) ==
    [i \in 1..Len(search_results) |->
        [file_name        |-> DictGet(search_results[i].metadata, "file_name", "Unknown"),
         page_number      |-> DictGet(search_results[i].metadata, "page_number", "Unknown"),
         similarity_score |-> search_results[i].similarity_score]]

\* lines 113 and 120: the contents joined by a blank line
make_context(search_results) ==
    JoinWith(<<"\n", "\n">>,
             [i \in 1..Len(search_results) |-> search_results[i].content])

\* line 127: sum of the scores over their number
avg_confidence(search_results) ==
    LET total == RatSum([i \in 1..Len(search_results) |->
                            search_results[i].similarity_score])
    IN Reduce(<<total[1], total[2] * Len(search_results)>>)

\* ask_question: result is the dict returned; searched, search_results,
\* generator_calls, generator_raised and context record the calls made on the
\* collaborators
ask_question(st, question, language, outcome) ==
    LET question_embedding == get_single_embedding(question) IN
    IF Len(question_embedding) = 0
    THEN [result |-> AskFailure("Failed to generate question embedding"),
          question_embedding |-> question_embedding,
          searched |-> FALSE, search_results |-> <<>>,
          generator_calls |-> 0, generator_raised |-> FALSE,
          context |-> <<>>]
    ELSE LET search_results == search_similar(st, question_embedding, default_top_k) IN
         IF search_results = <<>>
         THEN [result |-> [success |-> TRUE, answer |-> InsufficientAnswer,
                           sources |-> <<>>, confidence |-> <<0, 1>>],
               question_embedding |-> question_embedding,
               searched |-> TRUE, search_results |-> search_results,
               generator_calls |-> 0, generator_raised |-> FALSE,
          context |-> <<>>]
         ELSE LET sources   == make_sources(search_results)
                  context   == make_context(search_results)
                  generated == generate_response(question, context, language, outcome)
              IN IF generated.raised
                 THEN [result |-> AskFailure(generated.error),
                       question_embedding |-> question_embedding,
                       searched |-> TRUE, search_results |-> search_results,
                       generator_calls |-> 1, generator_raised |-> TRUE,
                       context |-> context]
                 ELSE [result |-> [success        |-> TRUE,
                                   answer         |-> generated.answer,
                                   sources        |-> sources,
                                   confidence     |-> avg_confidence(search_results),
                                   context_length |-> Len(context),
                                   sources_count  |-> Len(sources)],
                       question_embedding |-> question_embedding,
                       searched |-> TRUE, search_results |-> search_results,
                       generator_calls |-> 1, generator_raised |-> FALSE,
                       context |-> context]

\* Config.TOP_K_RETRIEVAL when the environment does not set it
top_k_retrieval == 3

\* Config with nothing set in the environment
DefaultConfig == [top_k_retrieval |-> top_k_retrieval]

\* Config.TOP_K_RETRIEVAL = int(os.getenv("TOP_K_RETRIEVAL", 3)): the default
\* and a value set in the environment
Configs == {DefaultConfig, [top_k_retrieval |-> 1]}

\* get_system_status: the store's figures, the manager's provider field and
\* the providers with a key, the embedder's and the chunker's settings
get_system_status(st, manager, cfg) ==
    LET vector_stats == get_collection_stats(st) IN
    [vector_store  |-> [status          |-> IF vector_stats.total_documents > 0
                                            THEN "active" ELSE "empty",
                        total_documents |-> vector_stats.total_documents,
                        unique_files    |-> vector_stats.unique_files,
                        file_names      |-> vector_stats.file_names],
     llm           |-> [current_provider    |-> manager.provider,
                        available_providers |-> get_available_providers(manager)],
     embeddings    |-> [model |-> "simple-hash-embedding", dimension |-> embedding_dim],
     configuration |-> [chunk_size      |-> chunk_size,
                        chunk_overlap   |-> chunk_overlap,
                        top_k_retrieval |-> cfg.top_k_retrieval]]

----------------------------------------------------------------------------
(* Inputs of the calls made on the store directly *)

Meta(file_name, page_number) ==
    [file_name |-> file_name, page_number |-> page_number]

ChunkX == [content |-> <<"x">>, embedding |-> <<1, 0>>, metadata |-> Meta("x.txt", 1)]
ChunkY == [content |-> <<"y">>, embedding |-> <<0, 1>>, metadata |-> Meta("y.txt", 1)]
ChunkZ == [content |-> <<"z">>, embedding |-> <<0, 0>>, metadata |-> Meta("y.txt", 2)]
\* dicts that lack a key
ChunkNoContent   == [embedding |-> <<1, 0>>, metadata |-> Meta("x.txt", 1)]
ChunkNoEmbedding == [content |-> <<"y">>, metadata |-> Meta("y.txt", 1)]
ChunkNoMetadata  == [content |-> <<"z">>, embedding |-> <<3, 4>>]
\* a chunk encoded by an embedder of another dimension
ChunkW == [content |-> <<"w">>, embedding |-> <<1, 0, 0>>, metadata |-> Meta("x.txt", 2)]

Batches ==
    { <<>>, <<ChunkX>>, <<ChunkY, ChunkZ>>,
      <<ChunkX, ChunkNoEmbedding>>, <<ChunkNoMetadata>>, <<ChunkNoContent>> }

Queries == { <<1, 0>>, <<3, 4>> }

\* questions put to ask_question: two that embed to different vectors and one
\* the embedder cannot encode
Questions == { <<"a">>, <<"b">>, <<"a", LoneSurrogate>> }

\* the language argument, left at its default: ask_question only hands it on to
\* the generator
Languages == {"en"}

----------------------------------------------------------------------------
(* Inputs of the calls made on the chunker and the embedder directly *)

TextAlphabet == {"a", "b", " "}

\* page texts
Texts == UNION {[1..n -> TextAlphabet] : n \in 0..MaxTextLen}

\* a page dict as extract_text_from_pdf builds it; page_number is set from the
\* page's place in the list
Page(text) == [text |-> text, file_name |-> "f.pdf", page_number |-> 0]

\* page dicts that lack a key
PageNoText       == [file_name |-> "f.pdf", page_number |-> 0]
PageNoFileName   == [text |-> <<"a", " ", "b">>, page_number |-> 0]
PageNoPageNumber == [text |-> <<"a", " ", "b">>, file_name |-> "f.pdf"]
PageBlankNoFileName == [text |-> <<" ">>, page_number |-> 0]

PageBodies ==
    {Page(text) : text \in Texts}
        \cup {PageNoText, PageNoFileName, PageNoPageNumber, PageBlankNoFileName}

\* the pages that fill a list around the one that varies
FillerPages ==
    {Page(<<"a", " ", "b", " ", "a">>), Page(<<" ">>), PageNoText, PageNoPageNumber}

Numbered(pages) ==
    [i \in 1..Len(pages) |->
        IF "page_number" \in DOMAIN pages[i]
        THEN [pages[i] EXCEPT !.page_number = i] ELSE pages[i]]

\* the pages arguments: any page among filler pages, at any place
PageLists ==
    {<<>>} \cup
    UNION {{Numbered([i \in 1..n |-> IF i = k THEN body ELSE filler[i]]) :
                k \in 1..n, body \in PageBodies, filler \in [1..n -> FillerPages]} :
           n \in 1..MaxItems}

\* texts handed to the embedder: the empty one, two that hash differently,
\* two it cannot encode
EmbedTexts == { <<>>, <<"a">>, <<"b">>, <<LoneSurrogate>>, <<"a", LoneSurrogate>> }

TextLists == UNION {[1..n -> EmbedTexts] : n \in 0..MaxItems}

\* chunk dicts handed to batch_encode_with_metadata, with and without their keys
EmbedChunks ==
    {[content |-> text, metadata |-> Meta("f.pdf", 1)] : text \in EmbedTexts}
        \cup {[content |-> <<"b">>], [metadata |-> Meta("f.pdf", 2)]}

ChunkLists == UNION {[1..n -> EmbedChunks] : n \in 0..MaxItems}

\* vectors handed to the two cosine functions: zero vectors, unit and longer
\* ones, one with a negative direction, one of another length, and one whose
\* squared components exceed the float range
CosineVectors ==
    { <<0, 0>>, <<1, 0>>, <<0, 1>>, <<3, 4>>, <<0 - 3, 0 - 4>>, <<48, 55>>,
      <<>>, <<1>>, <<0>>, <<200, 0>> }

----------------------------------------------------------------------------
(* Threads that call the store *)

Threads == {"t1", "t2"}

\* a thread that is inside no store call
Idle == [op |-> "idle"]

----------------------------------------------------------------------------
(* The state machine *)

Init ==
    /\ disk = NoFile
    /\ documents = load_data(NoFile).documents
    /\ embeddings = load_data(NoFile).embeddings
    /\ metadata = load_data(NoFile).metadata
    /\ durable = EmptyStore
    /\ ret = [op |-> "init"]
    /\ running = [thread \in Threads |-> Idle]
    /\ peer = EmptyStore
    /\ llm = DefaultManager
    /\ config = DefaultConfig

SetStore(st) ==
    /\ documents' = st.documents
    /\ embeddings' = st.embeddings
    /\ metadata' = st.metadata

\* vector_store.add_documents(encoded_chunks)
AddDocuments ==
    \E encoded_chunks \in Batches, outcome \in SaveOutcomes :
        /\ Len(documents) + Len(encoded_chunks) <= MaxDocs
        /\ \E r \in {add_documents(Store, disk, encoded_chunks, outcome)} :
            /\ SetStore(r.store)
            /\ disk' = r.disk
            /\ durable' = IF r.ok THEN r.store ELSE durable
            /\ ret' = [op |-> "add", encoded_chunks |-> encoded_chunks, ok |-> r.ok]
            /\ UNCHANGED <<running, peer, llm, config>>

\* rag_engine.process_documents(file_paths)
ProcessDocuments ==
    \E file_paths \in FilePathLists, outcome \in SaveOutcomes :
        \E r \in {process_documents(Store, disk, file_paths, outcome)} :
            /\ Len(r.store.documents) <= MaxStored
            /\ SetStore(r.store)
            /\ disk' = r.disk
            /\ durable' = IF r.added THEN r.store ELSE durable
            /\ ret' = [op |-> "ingest", file_paths |-> file_paths, result |-> r.result]
            /\ UNCHANGED <<running, peer, llm, config>>

\* vector_store.reset_collection() / RAGEngine.reset_system()
ResetSystem ==
    \E outcome \in SaveOutcomes :
        \E r \in {delete_collection(Store, disk, outcome)} :
            /\ SetStore(r.store)
            /\ disk' = r.disk
            /\ durable' = IF r.ok THEN r.store ELSE durable
            /\ ret' = [op |-> "reset", ok |-> r.ok]
            /\ UNCHANGED <<running, peer, llm, config>>

\* vector_store.search_similar(query_embedding, top_k)
SearchSimilar ==
    \E query_embedding \in Queries, top_k \in 0..MaxTopK :
        /\ ret' = [op |-> "search", query_embedding |-> query_embedding, top_k |-> top_k,
                   ranked  |-> similarities_top(Store, query_embedding, top_k),
                   results |-> search_similar(Store, query_embedding, top_k)]
        /\ UNCHANGED <<documents, embeddings, metadata, disk, durable, running, peer, llm, config>>

\* vector_store.get_collection_stats()
GetCollectionStats ==
    /\ ret' = [op |-> "stats", stats |-> get_collection_stats(Store)]
    /\ UNCHANGED <<documents, embeddings, metadata, disk, durable, running, peer, llm, config>>

\* AskQuestion that keeps the question's embedding in the store as a cache entry
AskQuestion_caching ==
    \E question \in Questions, language \in Languages, outcome \in GeneratorOutcomes :
        \E r \in {ask_question(Store, question, language, outcome)} :
            /\ embeddings' = Append(embeddings, r.question_embedding)
            /\ ret' = [op |-> "ask", question |-> question, language |-> language,
                       result |-> r.result, searched |-> r.searched,
                       search_results |-> r.search_results,
                       generator_calls |-> r.generator_calls,
                       generator_raised |-> r.generator_raised, context |-> r.context]
            /\ UNCHANGED <<documents, metadata, disk, durable, running, peer, llm, config>>

\* rag_engine.ask_question(question, language)
AskQuestion ==
    \E question \in Questions, language \in Languages, outcome \in GeneratorOutcomes :
        \E r \in {ask_question(Store, question, language, outcome)} :
            /\ ret' = [op |-> "ask", question |-> question, language |-> language,
                       result |-> r.result, searched |-> r.searched,
                       search_results |-> r.search_results,
                       generator_calls |-> r.generator_calls,
                       generator_raised |-> r.generator_raised, context |-> r.context]
            /\ UNCHANGED <<documents, embeddings, metadata, disk, durable, running, peer, llm, config>>

\* rag_engine.get_system_status()
GetSystemStatus ==
    /\ ret' = [op |-> "status", status |-> get_system_status(Store, llm, config)]
    /\ UNCHANGED <<documents, embeddings, metadata, disk, durable, running, peer, llm, config>>

\* the process ends and a new one constructs SimpleVectorStore on the same directory
Restart ==
    /\ SetStore(load_data(disk))
    /\ ret' = [op |-> "restart"]
    /\ UNCHANGED <<disk, durable, running, peer, llm, config>>

\* the store filled through its own interface, searched directly and
\* questioned through the engine
Next ==
    \/ AddDocuments
    \/ ResetSystem
    \/ SearchSimilar
    \/ GetCollectionStats
    \/ AskQuestion
    \/ GetSystemStatus
    \/ Restart

Spec == Init /\ [][Next]_vars

\* a component call about to be made: its name and its arguments
ComponentCalls ==
    {[op |-> "call", name |-> "chunk_document_pages", chunker |-> chunker, pages |-> pages] :
        chunker \in Chunkers, pages \in PageLists}
    \cup {[op |-> "call", name |-> "get_embeddings", texts |-> texts] : texts \in TextLists}
    \cup {[op |-> "call", name |-> "batch_encode_with_metadata", chunks |-> chunks] :
            chunks \in ChunkLists}
    \cup {[op |-> "call", name |-> "get_single_embedding", dim |-> dim,
           other_dim |-> other_dim, text |-> text] :
            dim \in 1..MaxDim, other_dim \in 1..MaxDim, text \in EmbedTexts}
    \cup {[op |-> "call", name |-> "compute_similarity", vec1 |-> vec1, vec2 |-> vec2] :
            vec1 \in CosineVectors, vec2 \in CosineVectors}

ComponentInit ==
    /\ disk = NoFile
    /\ documents = <<>> /\ embeddings = <<>> /\ metadata = <<>>
    /\ durable = EmptyStore
    /\ ret \in ComponentCalls
    /\ running = [thread \in Threads |-> Idle]
    /\ peer = EmptyStore
    /\ llm = DefaultManager
    /\ config = DefaultConfig

\* text_chunker.chunk_document_pages(pages)
ChunkDocumentPages ==
    /\ ret.op = "call" /\ ret.name = "chunk_document_pages"
    /\ ret' = [op |-> "chunk", chunker |-> ret.chunker, pages |-> ret.pages,
               chunks |-> chunk_document_pages(ret.chunker, ret.pages)]
    /\ UNCHANGED <<documents, embeddings, metadata, disk, durable, running, peer, llm, config>>

\* embedding_manager.get_embeddings(texts)
GetEmbeddings ==
    /\ ret.op = "call" /\ ret.name = "get_embeddings"
    /\ ret' = [op |-> "embed", texts |-> ret.texts,
               embeddings |-> get_embeddings(ret.texts)]
    /\ UNCHANGED <<documents, embeddings, metadata, disk, durable, running, peer, llm, config>>

\* embedding_manager.batch_encode_with_metadata(chunks)
BatchEncodeWithMetadata ==
    /\ ret.op = "call" /\ ret.name = "batch_encode_with_metadata"
    /\ ret' = [op |-> "encode", chunks |-> ret.chunks,
               encoded_chunks |-> batch_encode_with_metadata(ret.chunks)]
    /\ UNCHANGED <<documents, embeddings, metadata, disk, durable, running, peer, llm, config>>

\* get_single_embedding(text) twice on an EmbeddingManager(dim) and once on
\* an EmbeddingManager(other_dim), with get_embedding_dimension of each
GetSingleEmbedding ==
    /\ ret.op = "call" /\ ret.name = "get_single_embedding"
    /\ ret' = [op |-> "single", dim |-> ret.dim, other_dim |-> ret.other_dim,
               text |-> ret.text,
               embedding |-> get_single_embedding_of(ret.dim, ret.text),
               again     |-> get_single_embedding_of(ret.dim, ret.text),
               other     |-> get_single_embedding_of(ret.other_dim, ret.text),
               dimension |-> get_embedding_dimension(ret.dim),
               other_dimension |-> get_embedding_dimension(ret.other_dim)]
    /\ UNCHANGED <<documents, embeddings, metadata, disk, durable, running, peer, llm, config>>

\* embedding_manager.compute_similarity(vec1, vec2) and
\* vector_store._cosine_similarity(vec1, vec2) on the same pair
ComputeSimilarity ==
    /\ ret.op = "call" /\ ret.name = "compute_similarity"
    /\ ret' = [op |-> "cosine", vec1 |-> ret.vec1, vec2 |-> ret.vec2,
               compute_similarity |-> compute_similarity(ret.vec1, ret.vec2),
               cosine_similarity  |-> cosine_similarity(ret.vec1, ret.vec2)]
    /\ UNCHANGED <<documents, embeddings, metadata, disk, durable, running, peer, llm, config>>

\* the chunker and the embedder each called once on its own, as
\* test_system.py does, for every argument of the input sets
ComponentNext ==
    \/ ChunkDocumentPages
    \/ GetEmbeddings
    \/ BatchEncodeWithMetadata
    \/ GetSingleEmbedding
    \/ ComputeSimilarity

ComponentSpec == ComponentInit /\ [][ComponentNext]_vars

\* the store driven through RAGEngine only
EngineNext ==
    \/ ProcessDocuments
    \/ ResetSystem
    \/ GetCollectionStats
    \/ Restart

EngineSpec == Init /\ [][EngineNext]_vars

\* the batches two sessions add: chunks that have every key, one of them
\* encoded by an embedder of another dimension
SessionBatches == { <<ChunkX>>, <<ChunkY, ChunkZ>>, <<ChunkW>> }

\* add_documents(encoded_chunks) on the first instance
SessionAdd ==
    \E encoded_chunks \in SessionBatches, outcome \in SaveOutcomes :
        /\ Len(documents) + Len(encoded_chunks) <= MaxDocs
        /\ \E r \in {add_documents(Store, disk, encoded_chunks, outcome)} :
            /\ SetStore(r.store)
            /\ disk' = r.disk
            /\ durable' = IF r.ok THEN r.store ELSE durable
            /\ ret' = [op |-> "add", encoded_chunks |-> encoded_chunks, ok |-> r.ok]
            /\ UNCHANGED <<running, peer, llm, config>>

\* add_documents(encoded_chunks) on the second instance: its own lists, the
\* same vector_store.pkl
PeerAdd ==
    \E encoded_chunks \in SessionBatches, outcome \in SaveOutcomes :
        /\ Len(peer.documents) + Len(encoded_chunks) <= MaxDocs
        /\ \E r \in {add_documents(peer, disk, encoded_chunks, outcome)} :
            /\ peer' = r.store
            /\ disk' = r.disk
            /\ ret' = [op |-> "peer_add", encoded_chunks |-> encoded_chunks, ok |-> r.ok]
            /\ UNCHANGED <<documents, embeddings, metadata, durable, running, llm, config>>

\* the second session starts anew: SimpleVectorStore() constructed on the
\* same directory
PeerOpen ==
    /\ peer' = load_data(disk)
    /\ ret' = [op |-> "peer_open"]
    /\ UNCHANGED <<documents, embeddings, metadata, disk, durable, running, llm, config>>

\* two Streamlit sessions, each with its own RAGEngine and so its own
\* SimpleVectorStore, on the one persist directory
SessionNext ==
    \/ SessionAdd
    \/ PeerAdd
    \/ PeerOpen
    \/ Restart

SessionSpec == Init /\ [][SessionNext]_vars

\* the sets of backends that have an API key in the environment
KeySets == SUBSET {"openai", "anthropic", "openrouter"}

\* the engine with an LLMManager constructed for any provider name, under any
\* configuration of keys with which the constructor does not raise
LLMInit ==
    /\ disk = NoFile
    /\ documents = load_data(NoFile).documents
    /\ embeddings = load_data(NoFile).embeddings
    /\ metadata = load_data(NoFile).metadata
    /\ durable = EmptyStore
    /\ ret = [op |-> "init"]
    /\ running = [thread \in Threads |-> Idle]
    /\ peer = EmptyStore
    /\ llm \in {LLMManager(keys, provider) : keys \in KeySets \ {{}}, provider \in ProviderNames}
    /\ config = DefaultConfig

\* llm_manager.switch_provider(provider)
SwitchProvider ==
    \E provider \in ProviderNames :
        \E r \in {switch_provider(llm, provider)} :
            /\ llm' = r.manager
            /\ ret' = [op |-> "switch", provider |-> provider, raised |-> r.raised,
                       before |-> llm]
            /\ UNCHANGED <<documents, embeddings, metadata, disk, durable, running, peer, config>>

\* the provider switched from the sidebar and the status read
LLMNext ==
    \/ SwitchProvider
    \/ GetSystemStatus

LLMSpec == LLMInit /\ [][LLMNext]_vars

\* the batches the threads add: chunks that have every key
ThreadBatches == { <<ChunkX>>, <<ChunkY, ChunkZ>> }

\* what the persist directory holds when the session starts
ThreadDisks == {NoFile, save_data(append_chunk(EmptyStore, ChunkX).store, NoFile, "ok")}

\* a thread whose call has returned: a Streamlit script run makes one call on
\* the store and ends
Returned == [op |-> "returned"]

\* a thread enters add_documents(encoded_chunks); before is the store it finds
BeginAdd ==
    \E thread \in Threads, encoded_chunks \in ThreadBatches :
        /\ running[thread] = Idle
        /\ running' = [running EXCEPT ![thread] =
                          [op |-> "add", encoded_chunks |-> encoded_chunks,
                           i |-> 1, field |-> "content", before |-> Store]]
        /\ UNCHANGED <<documents, embeddings, metadata, disk, durable, ret, peer, llm, config>>

\* the next of the three appends of the loop (lines 66-68); nothing keeps
\* another thread from running between two of them
AddStep ==
    \E thread \in Threads :
        /\ running[thread].op = "add"
        /\ running[thread].i <= Len(running[thread].encoded_chunks)
        /\ \E chunk \in {running[thread].encoded_chunks[running[thread].i]} :
              \/ /\ running[thread].field = "content"
                 /\ documents' = Append(documents, chunk.content)
                 /\ running' = [running EXCEPT ![thread].field = "embedding"]
                 /\ UNCHANGED <<embeddings, metadata>>
              \/ /\ running[thread].field = "embedding"
                 /\ embeddings' = Append(embeddings, chunk.embedding)
                 /\ running' = [running EXCEPT ![thread].field = "metadata"]
                 /\ UNCHANGED <<documents, metadata>>
              \/ /\ running[thread].field = "metadata"
                 /\ metadata' = Append(metadata, chunk.metadata)
                 /\ running' = [running EXCEPT ![thread].field = "content",
                                                ![thread].i = @ + 1]
                 /\ UNCHANGED <<documents, embeddings>>
        /\ UNCHANGED <<disk, durable, ret, peer, llm, config>>

\* the loop is over: _save_data(), which writes the file, and return True
FinishAdd ==
    \E thread \in Threads, outcome \in {"ok"} :
        /\ running[thread].op = "add"
        /\ running[thread].i > Len(running[thread].encoded_chunks)
        /\ disk' = save_data(Store, disk, outcome)
        /\ durable' = Store
        /\ ret' = [op |-> "add", encoded_chunks |-> running[thread].encoded_chunks,
                   ok |-> TRUE]
        /\ running' = [running EXCEPT ![thread] = Returned]
        /\ UNCHANGED <<documents, embeddings, metadata, peer, llm, config>>

\* a thread enters delete_collection()
BeginReset ==
    \E thread \in Threads :
        /\ running[thread] = Idle
        /\ running' = [running EXCEPT ![thread] =
                          [op |-> "reset", field |-> "documents", before |-> Store]]
        /\ UNCHANGED <<documents, embeddings, metadata, disk, durable, ret, peer, llm, config>>

\* the next of the three assignments of delete_collection (lines 186-188)
ResetStep ==
    \E thread \in Threads :
        /\ running[thread].op = "reset"
        /\ \/ /\ running[thread].field = "documents"
              /\ documents' = <<>>
              /\ running' = [running EXCEPT ![thread].field = "embeddings"]
              /\ UNCHANGED <<embeddings, metadata>>
           \/ /\ running[thread].field = "embeddings"
              /\ embeddings' = <<>>
              /\ running' = [running EXCEPT ![thread].field = "metadata"]
              /\ UNCHANGED <<documents, metadata>>
           \/ /\ running[thread].field = "metadata"
              /\ metadata' = <<>>
              /\ running' = [running EXCEPT ![thread].field = "save"]
              /\ UNCHANGED <<documents, embeddings>>
        /\ UNCHANGED <<disk, durable, ret, peer, llm, config>>

\* the lists are cleared: _save_data(), which writes the file, and return True
FinishReset ==
    \E thread \in Threads, outcome \in {"ok"} :
        /\ running[thread].op = "reset"
        /\ running[thread].field = "save"
        /\ disk' = save_data(Store, disk, outcome)
        /\ durable' = Store
        /\ ret' = [op |-> "reset", ok |-> TRUE]
        /\ running' = [running EXCEPT ![thread] = Returned]
        /\ UNCHANGED <<documents, embeddings, metadata, peer, llm, config>>

\* search_similar(query_embedding, top_k) in a further thread, on the lists as
\* they are at that moment
ThreadSearch ==
    \E query_embedding \in Queries, top_k \in 0..MaxTopK :
        /\ ret' = [op |-> "search", query_embedding |-> query_embedding, top_k |-> top_k,
                   results |-> search_similar(Store, query_embedding, top_k)]
        /\ UNCHANGED <<documents, embeddings, metadata, disk, durable, running, peer, llm, config>>

\* several threads calling the one SimpleVectorStore of a session: the code
\* takes no lock, so the statements of the calls interleave
ThreadNext ==
    \/ BeginAdd
    \/ AddStep
    \/ FinishAdd
    \/ BeginReset
    \/ ResetStep
    \/ FinishReset
    \/ ThreadSearch

\* the session's RAGEngine constructed on the directory, no call made yet
ThreadInit ==
    /\ disk \in ThreadDisks
    /\ documents = load_data(disk).documents
    /\ embeddings = load_data(disk).embeddings
    /\ metadata = load_data(disk).metadata
    /\ durable = load_data(disk)
    /\ ret = [op |-> "init"]
    /\ running = [thread \in Threads |-> Idle]
    /\ peer = EmptyStore
    /\ llm = DefaultManager
    /\ config = DefaultConfig

ThreadSpec == ThreadInit /\ [][ThreadNext]_vars

\* the engine in a process started with any of the TOP_K_RETRIEVAL settings:
\* documents ingested, questions asked, the status read
ConfigInit ==
    /\ disk = NoFile
    /\ documents = load_data(NoFile).documents
    /\ embeddings = load_data(NoFile).embeddings
    /\ metadata = load_data(NoFile).metadata
    /\ durable = EmptyStore
    /\ ret = [op |-> "init"]
    /\ running = [thread \in Threads |-> Idle]
    /\ peer = EmptyStore
    /\ llm = DefaultManager
    /\ config \in Configs

ConfigNext ==
    \/ ProcessDocuments
    \/ AskQuestion
    \/ GetSystemStatus

ConfigSpec == ConfigInit /\ [][ConfigNext]_vars

----------------------------------------------------------------------------
(* Properties *)

Min(a, b) == IF a < b THEN a ELSE b

\* the content, embedding and metadata lists a well-formed batch contributes
BatchDocuments(encoded_chunks)  == [i \in 1..Len(encoded_chunks) |-> encoded_chunks[i].content]
BatchEmbeddings(encoded_chunks) == [i \in 1..Len(encoded_chunks) |-> encoded_chunks[i].embedding]
BatchMetadata(encoded_chunks)   == [i \in 1..Len(encoded_chunks) |-> encoded_chunks[i].metadata]

\* the last n elements of a sequence
LastN(seq, n) == SubSeq(seq, Len(seq) - n + 1, Len(seq))

\* C1: an add_documents call that returns False leaves documents, embeddings
\* and metadata exactly as they were before the call.
C1_FailedAddLeavesIndexUnchanged ==
    [][(ret'.op = "add" /\ ~ret'.ok)
         => (documents' = documents /\ embeddings' = embeddings /\ metadata' = metadata)]_vars

\* C2: when add_documents or reset_collection has returned True, the pickle
\* file holds the content the store has after the call.
C2_SuccessMeansPersisted ==
    (ret.op \in {"add", "reset"} /\ ret.ok)
        => (disk.status = "valid" /\ disk.data = Store)

\* C3: the store constructed after a restart holds exactly the entries present
\* after the last add or reset that returned True.
C3_RestartReproducesLastSuccess ==
    ret.op = "restart" => Store = durable

\* C4: the entries search_similar ranks come in descending similarity, and of
\* two entries with equal similarity the one inserted earlier comes first; the
\* returned results are those entries in that order.
C4_DescendingTiesByInsertion ==
    ret.op = "search" =>
        /\ \A p, q \in 1..Len(ret.ranked) :
              p < q =>
                \/ RatLT(ret.ranked[q][1], ret.ranked[p][1])
                \/ RatEQ(ret.ranked[q][1], ret.ranked[p][1]) /\ ret.ranked[p][2] < ret.ranked[q][2]
        /\ \A p \in 1..Len(ret.results) :
              /\ ret.results[p].content = documents[ret.ranked[p][2] + 1]
              /\ ret.results[p].similarity_score = ret.ranked[p][1]

\* C5: search_similar on a store of N entries returns exactly min(top_k, N)
\* results, each a different stored entry.
C5_ReturnsMinTopKN ==
    ret.op = "search" =>
        /\ Len(ret.results) = Min(ret.top_k, Len(documents))
        /\ \A p \in 1..Len(ret.results) :
              /\ ret.ranked[p][2] + 1 \in 1..Len(documents)
              /\ ret.results[p].content = documents[ret.ranked[p][2] + 1]
              /\ ret.results[p].metadata = metadata[ret.ranked[p][2] + 1]
              /\ \A q \in 1..Len(ret.results) : p # q => ret.ranked[p][2] # ret.ranked[q][2]

\* C6: a successful add leaves the three lists as they were, followed by the
\* batch in batch order; within the life of a store object no call other than
\* reset removes or changes an entry already stored.
C6_AddAppendsOnly ==
    [][/\ (ret'.op = "add" /\ ret'.ok) =>
             /\ documents'  = documents  \o BatchDocuments(ret'.encoded_chunks)
             /\ embeddings' = embeddings \o BatchEmbeddings(ret'.encoded_chunks)
             /\ metadata'   = metadata   \o BatchMetadata(ret'.encoded_chunks)
       /\ ret'.op \notin {"reset", "restart"} =>
             /\ IsPrefix(documents, documents')
             /\ IsPrefix(embeddings, embeddings')
             /\ IsPrefix(metadata, metadata')]_vars

\* a successful add of a non-empty batch onto a store that already held entries
C6_Witness ==
    /\ ret.op = "add" /\ ret.ok
    /\ ret.encoded_chunks # <<>>
    /\ Len(documents) > Len(ret.encoded_chunks)

\* C7: once reset has returned True, stats reports no documents, no files and
\* no file names, and every search returns nothing.
C7_ResetEmptiesIndex ==
    (ret.op = "reset" /\ ret.ok) =>
        /\ get_collection_stats(Store).total_documents = 0
        /\ get_collection_stats(Store).unique_files = 0
        /\ get_collection_stats(Store).file_names = {}
        /\ \A q \in Queries, k \in 0..MaxTopK : search_similar(Store, q, k) = <<>>

\* reset returned True on a store that held entries (the file still shows them)
C7_Witness ==
    /\ ret.op = "reset" /\ ret.ok
    /\ disk.status = "valid" /\ disk.data.documents # <<>>

\* C8: a process_documents call that returns success = False leaves the three
\* lists exactly as they were before the call.
C8_FailedIngestLeavesIndexUnchanged ==
    [][(ret'.op = "ingest" /\ ~ret'.result.success)
         => (documents' = documents /\ embeddings' = embeddings /\ metadata' = metadata)]_vars

\* a failed ingest of a list whose first file is good, on a non-empty store
C8_Witness ==
    /\ ret.op = "ingest" /\ ~ret.result.success
    /\ Len(ret.file_paths) = 2 /\ ~process_document(ret.file_paths[1]).raised
    /\ documents # <<>>

\* C9: when extraction fails for a file of the list, process_documents returns
\* success = False with an error and all four counts 0, and the store is as it
\* was before the call.
C9_ExtractionFailureAbortsIngest ==
    [][(/\ ret'.op = "ingest"
        /\ \E i \in 1..Len(ret'.file_paths) : process_document(ret'.file_paths[i]).raised)
         => /\ ~ret'.result.success
            /\ ret'.result.error # ""
            /\ ret'.result.files_processed = 0
            /\ ret'.result.pages_extracted = 0
            /\ ret'.result.chunks_created = 0
            /\ ret'.result.chunks_stored = 0
            /\ documents' = documents /\ embeddings' = embeddings /\ metadata' = metadata]_vars

\* an ingest whose second file fails after a first file that yields chunks
C9_Witness ==
    /\ ret.op = "ingest"
    /\ Len(ret.file_paths) = 2
    /\ process_document(ret.file_paths[2]).raised
    /\ chunk_document_pages(DefaultChunker,
                            process_multiple_documents(<<ret.file_paths[1]>>).pages) # <<>>

\* C10: a successful process_documents call that directly follows a successful
\* call with the same file list appends once more the entries the first call
\* appended, so the two calls together add twice what the first added.
C10_RepeatedIngestDuplicates ==
    [][(/\ ret.op = "ingest" /\ ret.result.success
        /\ ret'.op = "ingest" /\ ret'.result.success
        /\ ret'.file_paths = ret.file_paths)
         => /\ ret'.result.chunks_stored = ret.result.chunks_stored
            /\ documents'  = documents  \o LastN(documents, ret.result.chunks_stored)
            /\ embeddings' = embeddings \o LastN(embeddings, ret.result.chunks_stored)
            /\ metadata'   = metadata   \o LastN(metadata, ret.result.chunks_stored)]_vars

\* the state after the second of two equal successful calls: the last
\* chunks_stored entries repeat the chunks_stored entries before them
C10_Witness ==
    /\ ret.op = "ingest" /\ ret.result.success
    /\ ret.result.chunks_stored >= 1
    /\ Len(documents) >= 2 * ret.result.chunks_stored
    /\ LastN(documents, ret.result.chunks_stored)
         = SubSeq(documents, Len(documents) - 2 * ret.result.chunks_stored + 1,
                  Len(documents) - ret.result.chunks_stored)
    /\ ret.result.vector_store_stats.total_documents = 2 * ret.result.chunks_stored

\* a store with no entry at all
EmptyIndex == documents = <<>> /\ embeddings = <<>> /\ metadata = <<>>

\* C11: ask_question on an empty index returns success = True with the fixed
\* insufficient-information answer, no sources and confidence 0.0, and the
\* generator is not called.
C11_EmptyIndexAnswersInsufficient ==
    (ret.op = "ask" /\ EmptyIndex) =>
        /\ ret.result.success
        /\ ret.result.answer = InsufficientAnswer
        /\ ret.result.sources = <<>>
        /\ RatEQ(ret.result.confidence, <<0, 1>>)
        /\ ret.generator_calls = 0

\* a question asked of an index that was filled and then emptied (the file
\* written or not)
C11_Witness ==
    /\ ret.op = "ask" /\ EmptyIndex
    /\ ret.searched
    /\ durable = EmptyStore /\ disk.status # "absent"

\* C12: when the embedder returns the zero vector for the question,
\* ask_question returns success = False with an error, and neither searches
\* the index nor calls the generator.
C12_ZeroVectorIsFailure ==
    (ret.op = "ask" /\ get_single_embedding(ret.question) = zeros) =>
        /\ ~ret.result.success
        /\ "error" \in DOMAIN ret.result
        /\ ~ret.searched
        /\ ret.generator_calls = 0

\* C13: when the generator raises, ask_question returns success = False with
\* the fixed fallback answer, no sources and confidence 0.0; no ask_question
\* call invokes the generator more than once.
C13_GeneratorFailureIsCaught ==
    ret.op = "ask" =>
        /\ ret.generator_calls <= 1
        /\ ret.generator_raised =>
              /\ ~ret.result.success
              /\ ret.result.answer = FallbackAnswer
              /\ ret.result.sources = <<>>
              /\ RatEQ(ret.result.confidence, <<0, 1>>)

\* the generator raised on a question that had search results
C13_Witness ==
    /\ ret.op = "ask" /\ ret.generator_raised
    /\ ret.generator_calls = 1
    /\ ret.search_results # <<>>

\* an ask_question call that returned success = True on at least one result
AnsweredFromResults ==
    ret.op = "ask" /\ ret.result.success /\ ret.search_results # <<>>

\* C14: a successful ask_question with results returns as many sources as
\* results, sources[i] with the file_name, page_number and similarity_score of
\* the i-th ranked result, and hands the generator the result contents joined
\* in ranked order.
C14_SourcesFollowRanking ==
    AnsweredFromResults =>
        LET ranked == search_similar(Store, get_single_embedding(ret.question),
                                     default_top_k)
        IN /\ ret.search_results = ranked
           /\ Len(ret.result.sources) = Len(ranked)
           /\ \A i \in 1..Len(ranked) :
                 /\ ret.result.sources[i].file_name = ranked[i].metadata.file_name
                 /\ ret.result.sources[i].page_number = ranked[i].metadata.page_number
                 /\ ret.result.sources[i].similarity_score = ranked[i].similarity_score
           /\ ret.context = JoinWith(<<"\n", "\n">>,
                                     [i \in 1..Len(ranked) |-> ranked[i].content])
           /\ ret.result.answer.from_context = ret.context

\* an answer from two results of different pages and different scores
C14_Witness ==
    /\ AnsweredFromResults
    /\ Len(ret.result.sources) = 2
    /\ ret.result.sources[1].page_number # ret.result.sources[2].page_number
    /\ RatLT(ret.result.sources[2].similarity_score, ret.result.sources[1].similarity_score)

\* C15: a successful ask_question with results reports as confidence the sum
\* of the results' similarity scores divided by their number.
C15_ConfidenceIsMean ==
    AnsweredFromResults =>
        LET total == RatSum([i \in 1..Len(ret.search_results) |->
                                ret.search_results[i].similarity_score])
        IN ret.result.confidence[1] * total[2] * Len(ret.search_results)
             = total[1] * ret.result.confidence[2]

\* an answer from two results whose scores differ, so the mean is neither
C15_Witness ==
    /\ AnsweredFromResults
    /\ Len(ret.search_results) = 2
    /\ RatLT(ret.search_results[2].similarity_score, ret.result.confidence)
    /\ RatLT(ret.result.confidence, ret.search_results[1].similarity_score)

\* C16: ask_question, search_similar, get_collection_stats and
\* get_system_status leave the three lists and the pickle file as they were,
\* whatever they return.
C16_QueriesLeaveIndexUnchanged ==
    [][ret'.op \in {"ask", "search", "stats", "status"}
         => /\ documents' = documents
            /\ embeddings' = embeddings
            /\ metadata' = metadata
            /\ disk' = disk]_vars

\* a question whose generator call failed, on a store that holds entries and
\* has them on disk
C16_Witness ==
    /\ ret.op = "ask" /\ ~ret.result.success
    /\ documents # <<>>
    /\ disk.status = "valid" /\ disk.data = Store

\* a page dict on which no line of the try body raises
ChunksWithoutError(page) == {"text", "file_name", "page_number"} \subseteq DOMAIN page

\* the segments the splitter returns for a page that are not blank, stripped,
\* in the splitter's order
KeptSegments(chunker, page) ==
    LET page_chunks == split_text(chunker, page.text)
    IN SelectSeq([i \in 1..Len(page_chunks) |-> strip(page_chunks[i])],
                 LAMBDA segment : segment # <<>>)

\* the chunks emitted for the page at place k of the list (its page_number)
ChunksOfPage(chunks, k) == SelectSeq(chunks, LAMBDA chunk : chunk.metadata.page_number = k)

\* C17: the n chunks chunk_document_pages emits for one page have chunk_index
\* 0..n-1 in emission order and total_chunks = n; a dropped blank segment
\* takes no index and is not counted.
C17_NumberingOverEmittedChunks ==
    ret.op = "chunk" =>
        \A k \in 1..Len(ret.pages) :
            LET mine == ChunksOfPage(ret.chunks, k) IN
            \A j \in 1..Len(mine) :
                /\ mine[j].metadata.chunk_index = j - 1
                /\ mine[j].metadata.total_chunks = Len(mine)

\* C18: the chunks come grouped by page in the order of the pages and, within
\* a page, in the order of the splitter's segments; each has non-empty stripped
\* content and the file_name and page_number of its page.
C18_ChunksFollowPagesAndSegments ==
    ret.op = "chunk" =>
        /\ \A p, q \in 1..Len(ret.chunks) :
              p < q => ret.chunks[p].metadata.page_number <= ret.chunks[q].metadata.page_number
        /\ \A p \in 1..Len(ret.chunks) :
              /\ ret.chunks[p].content # <<>>
              /\ strip(ret.chunks[p].content) = ret.chunks[p].content
              /\ ret.chunks[p].metadata.page_number \in 1..Len(ret.pages)
              /\ ret.chunks[p].metadata.file_name
                    = ret.pages[ret.chunks[p].metadata.page_number].file_name
        /\ \A k \in 1..Len(ret.pages) :
              ChunksWithoutError(ret.pages[k]) =>
                  LET mine == ChunksOfPage(ret.chunks, k) IN
                  [j \in 1..Len(mine) |-> mine[j].content]
                      = KeptSegments(ret.chunker, ret.pages[k])

\* two pages that each yield two chunks with different contents
C18_Witness ==
    /\ ret.op = "chunk" /\ Len(ret.pages) = 2
    /\ \A k \in 1..2 :
          /\ Len(ChunksOfPage(ret.chunks, k)) = 2
          /\ ChunksOfPage(ret.chunks, k)[1].content # ChunksOfPage(ret.chunks, k)[2].content

\* C19: a page whose chunking raises contributes no chunk, the other pages
\* contribute what they contribute without it, and the call returns its list.
C19_FailingPageIsSkipped ==
    ret.op = "chunk" =>
        LET good == SelectSeq(ret.pages, ChunksWithoutError) IN
        /\ ret.chunks = chunk_document_pages(ret.chunker, good)
        /\ Len(ret.chunks) = SumSeq([i \in 1..Len(good) |->
                                       Len(KeptSegments(ret.chunker, good[i]))])
        /\ \A k \in 1..Len(ret.pages) :
              ~ChunksWithoutError(ret.pages[k]) => ChunksOfPage(ret.chunks, k) = <<>>

\* a page that raises on its first chunk, ahead of a page that yields chunks
C19_Witness ==
    /\ ret.op = "chunk" /\ Len(ret.pages) = 2
    /\ "file_name" \notin DOMAIN ret.pages[1]
    /\ "text" \in DOMAIN ret.pages[1] /\ strip(ret.pages[1].text) # <<>>
    /\ ChunksOfPage(ret.chunks, 2) # <<>>

\* C20: get_embeddings and batch_encode_with_metadata return one output per
\* input, in input order; a text the embedder fails on gets the zero vector of
\* embedding_dim components, and the batch is neither shortened nor dropped.
C20_OneOutputPerInput ==
    LET expected(text) == IF utf8_encodable(text) THEN text_to_hash_vector(text)
                          ELSE [k \in 1..embedding_dim |-> 0]
    IN /\ ret.op = "embed" =>
             /\ Len(ret.embeddings) = Len(ret.texts)
             /\ \A i \in 1..Len(ret.texts) : ret.embeddings[i] = expected(ret.texts[i])
       /\ ret.op = "encode" =>
             /\ Len(ret.encoded_chunks) = Len(ret.chunks)
             /\ \A i \in 1..Len(ret.chunks) :
                   /\ ret.encoded_chunks[i].content = DictGet(ret.chunks[i], "content", <<>>)
                   /\ ret.encoded_chunks[i].embedding
                         = expected(DictGet(ret.chunks[i], "content", <<>>))
                   /\ ret.encoded_chunks[i].metadata = DictGet(ret.chunks[i], "metadata", <<>>)

\* a text the embedder fails on, ahead of one it embeds
C20_Witness ==
    /\ ret.op = "embed" /\ Len(ret.texts) = 2
    /\ ~utf8_encodable(ret.texts[1]) /\ utf8_encodable(ret.texts[2])
    /\ ret.embeddings[1] = zeros /\ ret.embeddings[2] # zeros

C22_CosinesDefinedAndEqual ==
    ret.op = "cosine" =>
        /\ ret.compute_similarity # NaN
        /\ ret.cosine_similarity # NaN
        /\ ret.compute_similarity = ret.cosine_similarity
        /\ (\A k \in 1..Len(ret.vec1) : ret.vec1[k] = 0)
               \/ (\A k \in 1..Len(ret.vec2) : ret.vec2[k] = 0)
            => ret.cosine_similarity = <<0, 1>>

\* the input files of a call that contributed at least one chunk
Contributing(file_paths) ==
    {file_paths[i] : i \in {j \in 1..Len(file_paths) :
                               Staged[<<file_paths[j]>>].chunks # <<>>}}

\* C23: starting from an empty index, after a successful process_documents the
\* reported total_documents is the number of chunks stored and unique_files is
\* the number of distinct input files that contributed at least one chunk
C23_StatsCountChunksAndFiles ==
    [][(EmptyIndex /\ ret'.op = "ingest" /\ ret'.result.success)
         => /\ ret'.result.vector_store_stats.total_documents = ret'.result.chunks_stored
            /\ get_system_status(Store', llm', config').vector_store.total_documents
                 = ret'.result.chunks_stored
            /\ ret'.result.vector_store_stats.unique_files
                 = Cardinality(Contributing(ret'.file_paths))
            /\ get_system_status(Store', llm', config').vector_store.unique_files
                 = Cardinality(Contributing(ret'.file_paths))]_vars

\* C29: whenever process_documents returns success, chunks_stored equals
\* chunks_created and total_documents has grown by exactly chunks_created
C29_StoredEqualsCreated ==
    [][(ret'.op = "ingest" /\ ret'.result.success)
         => /\ ret'.result.chunks_stored = ret'.result.chunks_created
            /\ Len(documents') = Len(documents) + ret'.result.chunks_created
            /\ ret'.result.vector_store_stats.total_documents
                 = get_collection_stats(Store).total_documents
                     + ret'.result.chunks_created]_vars

\* a successful call that created several chunks on a store that already had
\* entries
C29_Witness ==
    /\ ret.op = "ingest" /\ ret.result.success
    /\ ret.result.chunks_created >= 2
    /\ ret.result.chunks_stored = ret.result.chunks_created
    /\ Len(documents) > ret.result.chunks_created
    /\ ret.result.vector_store_stats.total_documents = Len(documents)

\* C26: ask_question returns at most Config.TOP_K_RETRIEVAL sources, the value
\* get_system_status reports as top_k_retrieval, and an answer drawn from an
\* index of N entries has exactly min(TOP_K_RETRIEVAL, N) sources
C26_SourcesBoundedByConfiguredTopK ==
    /\ ret.op = "status" =>
          ret.status.configuration.top_k_retrieval = config.top_k_retrieval
    /\ ret.op = "ask" =>
          Len(ret.result.sources)
              <= get_system_status(Store, llm, config).configuration.top_k_retrieval
    /\ AnsweredFromResults =>
          Len(ret.result.sources) = Min(config.top_k_retrieval, Len(documents))

\* all vectors of a list have one length
OneDimension(vectors) ==
    \A i \in 1..Len(vectors), j \in 1..Len(vectors) : Len(vectors[i]) = Len(vectors[j])

\* C24: in every reachable state of the index all stored embeddings have the
\* same dimension; an add whose batch holds a vector of another dimension does
\* not bring the index into a mixed-dimension state
C24_OneDimension ==
    /\ OneDimension(embeddings)
    /\ OneDimension(peer.embeddings)
    /\ disk.status = "valid" => OneDimension(disk.data.embeddings)

\* C27: in every reachable state of the store, after any sequence of
\* add_documents calls, successful or failed, resets and loads, documents,
\* embeddings and metadata have the same length
C27_ListsSameLength ==
    Len(documents) = Len(embeddings) /\ Len(embeddings) = Len(metadata)

\* C28: with two index instances open on the same persist directory, each
\* performing successful adds in any interleaving, the persisted store holds
\* the entries of every successful add of both: an add that returned True and
\* wrote the file leaves every entry that was persisted before it in the file
C28_NoPersistedAddOverwritten ==
    [][(/\ ret'.op \in {"add", "peer_add"} /\ ret'.ok
        /\ disk.status = "valid" /\ disk'.status = "valid" /\ disk' # disk)
         => /\ IsPrefix(disk.data.documents, disk'.data.documents)
            /\ IsPrefix(disk.data.embeddings, disk'.data.embeddings)
            /\ IsPrefix(disk.data.metadata, disk'.data.metadata)]_vars

\* C30: in every reachable state of an LLMManager, after construction and any
\* sequence of switch_provider calls, provider, which get_system_status reports
\* as current_provider, names the backend that current_llm is, and a
\* switch_provider that raised left both fields unchanged
C30_ProviderNamesCurrentBackend ==
    /\ llm.provider = llm.current_llm
    /\ get_system_status(Store, llm, config).llm.current_provider = llm.current_llm
    /\ (ret.op = "switch" /\ ret.raised) =>
          /\ llm.provider = ret.before.provider
          /\ llm.current_llm = ret.before.current_llm

\* the store a write call leaves when it runs alone from the store it found
AfterWrite(call) ==
    IF call.op = "add" THEN append_chunks(call.before, call.encoded_chunks).store
    ELSE EmptyStore

\* every stored entry is the content, embedding and metadata of one chunk
EntriesOfChunks ==
    /\ Len(documents) = Len(embeddings) /\ Len(embeddings) = Len(metadata)
    /\ \A k \in 1..Len(documents) :
          \E chunk \in {ChunkX, ChunkY, ChunkZ} :
              /\ documents[k] = chunk.content
              /\ embeddings[k] = chunk.embedding
              /\ metadata[k] = chunk.metadata

\* C25: a search_similar that runs while add_documents or reset_collection is
\* in progress on the same instance returns what it would return on the index
\* before the write or after the whole write, never on a partly applied batch;
\* and two concurrent writes do not interleave: once they are over the index
\* holds whole chunks
C25_WritesAreAtomic ==
    [][/\ (ret'.op = "search" /\ ret' # ret) =>
            \A thread \in Threads :
                (/\ running[thread] \notin {Idle, Returned}
                 /\ \A other \in Threads \ {thread} : running[other] \in {Idle, Returned})
                  => ret'.results \in
                        {search_similar(running[thread].before,
                                        ret'.query_embedding, ret'.top_k),
                         search_similar(AfterWrite(running[thread]),
                                        ret'.query_embedding, ret'.top_k)}
       /\ (\A thread \in Threads : running'[thread] \in {Idle, Returned})
            => EntriesOfChunks']_vars

========================================================================
